---- MODULE Spec2Model ----
(***************************************************************************)
(* Model of the shared property map of therodstu/cvgd: the Express routes  *)
(* of the backend server (server.js, held here as src/unnamed/part_008),   *)
(* the SQLite persistence module (backend/db.js), the socket.io fan-out,   *)
(* and the React App component that keeps a client-side cache              *)
(* (App.tsx, held as src/unnamed/part_003, with the PropertyService of     *)
(* src/services/parcelService.ts).                                         *)
(*                                                                         *)
(* A request handler is an async function: it runs without interruption    *)
(* up to each await on the database and is resumed when that database call *)
(* completes.  One action of the model is one database call of a handler   *)
(* together with the code that runs when it completes, up to the point     *)
(* where the next database call is issued (or the response is sent).       *)
(* Handlers of different requests interleave at these points.              *)
(*                                                                         *)
(* Abstractions: the four optional numeric columns (tax_value,             *)
(* assessed_value, cap_rate, monthly_payment) are written by               *)
(* updateProperty exactly as `value` is and are left out; created_at and   *)
(* updated_at (CURRENT_TIMESTAMP) are replaced by the strictly increasing  *)
(* commit stamp `rev`; user names and e-mail addresses are identified with *)
(* the user id.                                                            *)
(***************************************************************************)
EXTENDS Integers, Sequences, FiniteSets, TLC

(***************************************************************************)
(* Bounds of the model.                                                    *)
(***************************************************************************)
\* Requests received by the server in one behaviour.
MaxReq == 4
\* Ids the AUTOINCREMENT sequence of the properties table hands out.
MaxProps == 2
\* Ids the AUTOINCREMENT sequence of the users table hands out.
MaxUsers == 3

VARIABLES
    tblProperties,    \* the properties table: id -> row
    seqProperties,    \* its AUTOINCREMENT sequence: the last id handed out
    tblUsers,         \* the users table: id -> row
    seqUsers,         \* its AUTOINCREMENT sequence
    clock,            \* number of writes committed to the properties table
    tokens,           \* claims of the JWTs signed so far
    reqs,             \* the requests received so far, with each handler's position
    emitted,          \* every io.emit so far, in order
    socket,           \* the App's socket.io connection
    channel,          \* events in flight on that connection, oldest first
    properties,       \* the App's `properties` state (its cache)
    selectedProperty, \* the App's `selectedProperty` state
    mounted,          \* whether the App's mount effects have run
    capturedSelected, \* the `selectedProperty` the socket listeners closed over
    effectStale,      \* the socket effect's dependencies changed: it must re-run
    lostEvents        \* an event emitted since the App mounted did not reach it

vars == <<tblProperties, seqProperties, tblUsers, seqUsers, clock, tokens, reqs,
          emitted, socket, channel, properties, selectedProperty, mounted,
          capturedSelected, effectStale, lostEvents>>

dbVars == <<tblProperties, seqProperties, clock>>
userVars == <<tblUsers, seqUsers>>
netVars == <<emitted, channel, lostEvents>>
appVars == <<properties, selectedProperty, mounted, capturedSelected, effectStale>>

(***************************************************************************)
(* Values.                                                                 *)
(***************************************************************************)
\* JavaScript null / undefined result, SQL NULL row.
Null == [null |-> TRUE]
\* A null or undefined coordinate pair, and the SQL NULL of the coordinates column.
NoCoords == << >>
\* `o.k !== undefined`
Has(o, k) == k \in DOMAIN o
\* `o.k` where an absent key reads as a falsy default
Get(o, k, dflt) == IF Has(o, k) THEN o[k] ELSE dflt
\* `a || b` on numbers, strings and coordinate pairs
OrNum(a, b) == IF a # 0 THEN a ELSE b
OrStr(a, b) == IF a # "" THEN a ELSE b
OrCoords(a, b) == IF a # NoCoords THEN a ELSE b

\* A number JSON cannot write (NaN, Infinity), and the null JSON writes for it.
NonFinite == 99999
JsonNull == -99999
\* JSON.stringify of an array of numbers: the text is held as its list of literals.
JSONStringify(c) == [i \in DOMAIN c |-> IF c[i] = NonFinite THEN JsonNull ELSE c[i]]
\* JSON.parse of that text.
JSONParse(t) == t

PropIds == 1..MaxProps
UserIds == 1..MaxUsers
ReqIds == 1..MaxReq

(***************************************************************************)
(* db.js: the properties table.                                            *)
(***************************************************************************)
\* The row -> API object transformation of getAllProperties / getPropertyById.
RowToProperty(row) ==
    [id |-> row.id,
     address |-> row.address,
     zoning |-> row.zoning,
     value |-> row.value,
     notes |-> OrStr(row.notes, ""),
     coordinates |-> IF row.coordinates # NoCoords THEN JSONParse(row.coordinates)
                     ELSE NoCoords,
     thumbsUp |-> OrNum(row.thumbs_up, 0),
     thumbsDown |-> OrNum(row.thumbs_down, 0),
     createdBy |-> row.created_by,
     rev |-> row.rev]

\* Database.getPropertyById: SELECT ... WHERE id = ?
getPropertyById(tbl, id) ==
    IF id \in DOMAIN tbl THEN RowToProperty(tbl[id]) ELSE Null

\* Database.getAllProperties: SELECT ... ORDER BY created_at DESC (newest id first)
RECURSIVE NewestFirst(_, _)
NewestFirst(tbl, ids) ==
    IF ids = {} THEN << >>
    ELSE LET m == CHOOSE i \in ids : \A j \in ids : j <= i
         IN <<RowToProperty(tbl[m])>> \o NewestFirst(tbl, ids \ {m})
getAllProperties(tbl) == NewestFirst(tbl, DOMAIN tbl)

\* The keys of `updates` that Database.updateProperty turns into SET clauses.
UpdateFields(updates) ==
    {k \in {"address", "zoning", "value", "notes", "thumbsUp", "thumbsDown"} :
        Has(updates, k)}
    \cup (IF Has(updates, "coordinates") \/ Has(updates, "position")
          THEN {"coordinates"} ELSE {})

\* The row after UPDATE properties SET <fields>, updated_at = CURRENT_TIMESTAMP.
UpdatedRow(row, updates, stamp) ==
    [id |-> row.id,
     address |-> IF Has(updates, "address") THEN updates.address ELSE row.address,
     zoning |-> IF Has(updates, "zoning") THEN updates.zoning ELSE row.zoning,
     value |-> IF Has(updates, "value") THEN updates.value ELSE row.value,
     notes |-> IF Has(updates, "notes") THEN updates.notes ELSE row.notes,
     coordinates |->
         IF Has(updates, "coordinates") \/ Has(updates, "position")
         THEN LET coords == OrCoords(Get(updates, "coordinates", NoCoords),
                                     Get(updates, "position", NoCoords))
              IN IF coords # NoCoords THEN JSONStringify(coords) ELSE NoCoords
         ELSE row.coordinates,
     thumbs_up |-> IF Has(updates, "thumbsUp") THEN updates.thumbsUp ELSE row.thumbs_up,
     thumbs_down |-> IF Has(updates, "thumbsDown") THEN updates.thumbsDown
                     ELSE row.thumbs_down,
     created_by |-> row.created_by,
     rev |-> stamp]

\* The table after the UPDATE ... WHERE id = ? of Database.updateProperty.
UpdateTable(tbl, id, updates, stamp) ==
    IF id \in DOMAIN tbl /\ UpdateFields(updates) # {}
    THEN [tbl EXCEPT ![id] = UpdatedRow(tbl[id], updates, stamp)]
    ELSE tbl

\* The row Database.createProperty inserts.
InsertedRow(id, property, stamp) ==
    [id |-> id,
     address |-> property.address,
     zoning |-> OrStr(property.zoning, "Residential"),
     value |-> OrNum(property.value, 200000),
     notes |-> OrStr(property.notes, ""),
     coordinates |->
         LET coordinates == OrCoords(property.coordinates, property.position)
         IN IF coordinates # NoCoords THEN JSONStringify(coordinates) ELSE NoCoords,
     thumbs_up |-> OrNum(Get(property, "thumbsUp", 0), 0),
     thumbs_down |-> OrNum(Get(property, "thumbsDown", 0), 0),
     created_by |-> property.createdBy,
     rev |-> stamp]

\* The table after INSERT INTO properties.
InsertTable(tbl, id, property, stamp) ==
    [i \in DOMAIN tbl \cup {id} |->
        IF i = id THEN InsertedRow(id, property, stamp) ELSE tbl[i]]

\* The table after DELETE FROM properties WHERE id = ?
DeleteTable(tbl, id) == [i \in DOMAIN tbl \ {id} |-> tbl[i]]

\* The empty table, after DELETE FROM properties.
EmptyTable == [i \in {} |-> Null]

(***************************************************************************)
(* server.js: requests, tokens, events.                                    *)
(***************************************************************************)
\* A request without an Authorization header, and one whose token jwt.verify
\* rejects (bad signature or expired).
NoToken == [none |-> TRUE]
BadToken == [bad |-> TRUE]

\* A request as the server holds it: the route, who sent it, where its handler
\* stands, its parameters, the handler's locals, and the response once sent.
\* `wrote` is the commit stamp of the write it made to the properties table (0: none);
\* `ctx` is the `selectedProperty` that the App's calling handler closed over.
NewReq(kind, client, pc, id, body, tok) ==
    [kind |-> kind, client |-> client, pc |-> pc, id |-> id, body |-> body,
     tok |-> tok, existing |-> Null, updates |-> Null, status |-> 0, out |-> Null,
     wrote |-> 0,
     ctx |-> IF client = "app" THEN selectedProperty ELSE Null]

\* res.status(st).json(o): the handler ends.
Respond(r, st, o) ==
    [reqs EXCEPT ![r].pc = "done", ![r].status = st, ![r].out = o,
                 ![r].existing = Null, ![r].updates = Null]

\* The server accepts one more request (bound of the model).
CanReceive == Len(reqs) < MaxReq

\* authenticateToken: 401 without a token, 403 when jwt.verify fails, 0 to go on.
authenticateToken(tok) ==
    IF tok = NoToken THEN 401
    ELSE IF tok \notin tokens THEN 403
    ELSE 0

\* A role check that lets every verified token through.
requireAdminAny(tok) == 0

\* requireAdmin: 403 unless the token's role claim is admin, 0 to go on.
requireAdmin(tok) == IF tok.role # "admin" THEN 403 ELSE 0

\* authenticateToken, requireAdmin in turn.
AdminGate(tok) ==
    IF authenticateToken(tok) # 0 THEN authenticateToken(tok) ELSE requireAdmin(tok)

\* An event as io.emit sends it; `req` records the request that caused it.
Event(type, id, data, r) == [type |-> type, id |-> id, data |-> data, req |-> r]

\* io.emit: to every connected socket.
Emit(ev) ==
    /\ emitted' = Append(emitted, ev)
    /\ channel' = IF socket = "connected" THEN Append(channel, ev) ELSE channel
    /\ lostEvents' = (lostEvents \/ (mounted /\ socket # "connected"))

(***************************************************************************)
(* PUT /api/properties/:id                                                 *)
(***************************************************************************)
\* The request arrives; getPropertyById is issued.
PutRequest(c, id, body) ==
    /\ CanReceive
    /\ reqs' = Append(reqs, NewReq("put", c, "check", id, body, NoToken))
    /\ UNCHANGED <<dbVars, userVars, tokens, netVars, socket, appVars>>

\* A PUT route that applies a counter of the body as an increment.
PutUpdatesAdded(body, existingProperty) ==
    LET c == OrCoords(OrCoords(Get(body, "coordinates", NoCoords),
                               Get(body, "position", NoCoords)),
                      existingProperty.coordinates)
    IN [k \in DOMAIN body \cup {"coordinates", "position"} |->
           IF k \in {"coordinates", "position"} THEN c
           ELSE IF k = "thumbsUp" THEN existingProperty.thumbsUp + body[k]
           ELSE body[k]]

\* `updates` of the PUT route: the body, with coordinates and position always set.
PutUpdates(body, existingProperty) ==
    LET c == OrCoords(OrCoords(Get(body, "coordinates", NoCoords),
                               Get(body, "position", NoCoords)),
                      existingProperty.coordinates)
    IN [k \in DOMAIN body \cup {"coordinates", "position"} |->
           IF k \in {"coordinates", "position"} THEN c ELSE body[k]]

\* getPropertyById returns: 404, or updateProperty is called.
PutCheck(r) ==
    /\ r \in DOMAIN reqs /\ reqs[r].kind = "put" /\ reqs[r].pc = "check"
    /\ LET existingProperty == getPropertyById(tblProperties, reqs[r].id)
       IN reqs' = IF existingProperty = Null
                  THEN Respond(r, 404, Null)
                  ELSE [reqs EXCEPT ![r].pc = "write",
                                    ![r].existing = existingProperty,
                                    ![r].updates = PutUpdates(reqs[r].body, existingProperty)]
    /\ UNCHANGED <<dbVars, userVars, tokens, netVars, socket, appVars>>

(***************************************************************************)
(* POST /api/properties/:id/vote                                           *)
(***************************************************************************)
VoteRequest(c, id, vote) ==
    /\ CanReceive
    /\ reqs' = Append(reqs, NewReq("vote", c, "check", id, [vote |-> vote], NoToken))
    /\ UNCHANGED <<dbVars, userVars, tokens, netVars, socket, appVars>>

\* A vote that marks the property as voted instead of counting.
VoteUpdatesSet(vote, existingProperty) ==
    IF vote = "up" THEN [thumbsUp |-> 1] ELSE [thumbsDown |-> 1]

\* `updates` of the vote route: the counter read by the existence check, plus one.
VoteUpdates(vote, existingProperty) ==
    IF vote = "up" THEN [thumbsUp |-> OrNum(existingProperty.thumbsUp, 0) + 1]
    ELSE [thumbsDown |-> OrNum(existingProperty.thumbsDown, 0) + 1]

\* getPropertyById returns: 404, 400 for a vote that is neither up nor down, or
\* updateProperty is called.
VoteCheck(r) ==
    /\ r \in DOMAIN reqs /\ reqs[r].kind = "vote" /\ reqs[r].pc = "check"
    /\ LET existingProperty == getPropertyById(tblProperties, reqs[r].id)
           vote == reqs[r].body.vote
       IN reqs' = IF existingProperty = Null THEN Respond(r, 404, Null)
                  ELSE IF vote \notin {"up", "down"} THEN Respond(r, 400, Null)
                  ELSE [reqs EXCEPT ![r].pc = "write",
                                    ![r].existing = existingProperty,
                                    ![r].updates = VoteUpdates(vote, existingProperty)]
    /\ UNCHANGED <<dbVars, userVars, tokens, netVars, socket, appVars>>

(***************************************************************************)
(* Database.updateProperty as both routes call it, and what they do with   *)
(* its result.                                                             *)
(***************************************************************************)
\* The UPDATE statement runs; its callback issues getPropertyById.
UpdateWrite(r) ==
    /\ r \in DOMAIN reqs /\ reqs[r].kind \in {"put", "vote"} /\ reqs[r].pc = "write"
    /\ LET id == reqs[r].id
           hit == id \in DOMAIN tblProperties /\ UpdateFields(reqs[r].updates) # {}
       IN /\ tblProperties' = UpdateTable(tblProperties, id, reqs[r].updates, clock + 1)
          /\ clock' = IF hit THEN clock + 1 ELSE clock
          /\ reqs' = [reqs EXCEPT ![r].pc = "reread",
                                  ![r].wrote = IF hit THEN clock + 1 ELSE 0]
    /\ UNCHANGED <<seqProperties, userVars, tokens, netVars, socket, appVars>>

\* A re-read step that announces the property the existence check had found when
\* the row is gone.
UpdateRereadStale(r) ==
    /\ r \in DOMAIN reqs /\ reqs[r].kind \in {"put", "vote"} /\ reqs[r].pc = "reread"
    /\ LET row == getPropertyById(tblProperties, reqs[r].id)
           updatedProperty == IF row = Null THEN reqs[r].existing ELSE row
       IN /\ Emit(Event("propertyUpdated", updatedProperty.id, updatedProperty, r))
          /\ reqs' = Respond(r, 200, updatedProperty)
    /\ UNCHANGED <<dbVars, userVars, tokens, socket, appVars>>

\* getPropertyById returns the row as it is now; the route reads its coordinates (a TypeError,
\* hence 500, when it is null), emits propertyUpdated and responds.
UpdateReread(r) ==
    /\ r \in DOMAIN reqs /\ reqs[r].kind \in {"put", "vote"} /\ reqs[r].pc = "reread"
    /\ LET updatedProperty == getPropertyById(tblProperties, reqs[r].id)
       IN IF updatedProperty = Null
          THEN /\ reqs' = Respond(r, 500, Null)
               /\ UNCHANGED netVars
          ELSE /\ Emit(Event("propertyUpdated", updatedProperty.id, updatedProperty, r))
               /\ reqs' = Respond(r, 200, updatedProperty)
    /\ UNCHANGED <<dbVars, userVars, tokens, socket, appVars>>

(***************************************************************************)
(* POST /api/properties                                                    *)
(***************************************************************************)
\* `req.body.address` of a body without one (undefined, bound as SQL NULL).
NoAddress == "undefined"

\* `propertyData` of the create route, built from the body and the token's claims.
PropertyData(body, user) ==
    [address |-> Get(body, "address", NoAddress),
     zoning |-> OrStr(Get(body, "zoning", ""), "Residential"),
     value |-> OrNum(Get(body, "value", 0), 200000),
     notes |-> OrStr(Get(body, "notes", ""), ""),
     coordinates |-> OrCoords(Get(body, "coordinates", NoCoords),
                              Get(body, "position", NoCoords)),
     position |-> OrCoords(Get(body, "coordinates", NoCoords),
                           Get(body, "position", NoCoords)),
     createdBy |-> user.id]

\* Creates whose INSERT has not run yet (each will take an id).
PendingInserts == {r \in DOMAIN reqs : reqs[r].kind = "create" /\ reqs[r].pc = "insert"}

\* The request arrives: authenticateToken, then createProperty is called.
CreateRequest(c, tok, body) ==
    /\ CanReceive
    /\ seqProperties + Cardinality(PendingInserts) < MaxProps
    /\ reqs' = Append(reqs,
          IF authenticateToken(tok) # 0
          THEN [NewReq("create", c, "done", 0, body, tok)
                   EXCEPT !.status = authenticateToken(tok)]
          ELSE [NewReq("create", c, "insert", 0, body, tok)
                   EXCEPT !.updates = PropertyData(body, tok)])
    /\ UNCHANGED <<dbVars, userVars, tokens, netVars, socket, appVars>>

\* The INSERT runs (address is NOT NULL: without one it fails, hence 500); its
\* callback issues getPropertyById(lastID).
CreateInsert(r) ==
    /\ r \in DOMAIN reqs /\ reqs[r].kind = "create" /\ reqs[r].pc = "insert"
    /\ IF reqs[r].updates.address = NoAddress
       THEN /\ reqs' = Respond(r, 500, Null)
            /\ UNCHANGED dbVars
       ELSE LET lastID == seqProperties + 1
            IN /\ tblProperties' =
                      InsertTable(tblProperties, lastID, reqs[r].updates, clock + 1)
               /\ seqProperties' = lastID
               /\ clock' = clock + 1
               /\ reqs' = [reqs EXCEPT ![r].pc = "reread", ![r].id = lastID,
                                       ![r].wrote = clock + 1]
    /\ UNCHANGED <<userVars, tokens, netVars, socket, appVars>>

\* getPropertyById returns; the route reads newProperty.id (a TypeError, hence 500,
\* when it is null), emits propertyCreated and responds 201.
CreateReread(r) ==
    /\ r \in DOMAIN reqs /\ reqs[r].kind = "create" /\ reqs[r].pc = "reread"
    /\ LET newProperty == getPropertyById(tblProperties, reqs[r].id)
       IN IF newProperty = Null
          THEN /\ reqs' = Respond(r, 500, Null)
               /\ UNCHANGED netVars
          ELSE /\ Emit(Event("propertyCreated", newProperty.id, newProperty, r))
               /\ reqs' = Respond(r, 201, newProperty)
    /\ UNCHANGED <<dbVars, userVars, tokens, socket, appVars>>

(***************************************************************************)
(* DELETE /api/properties/:id and DELETE /api/properties                   *)
(***************************************************************************)
\* The request arrives: authenticateToken, requireAdmin, then deleteProperty is called.
DeleteRequest(c, tok, id) ==
    /\ CanReceive
    /\ reqs' = Append(reqs,
          IF AdminGate(tok) # 0
          THEN [NewReq("delete", c, "done", id, Null, tok) EXCEPT !.status = AdminGate(tok)]
          ELSE NewReq("delete", c, "delete", id, Null, tok))
    /\ UNCHANGED <<dbVars, userVars, tokens, netVars, socket, appVars>>

\* A delete route that does not look at result.deleted.
DeleteExecUnchecked(r) ==
    /\ r \in DOMAIN reqs /\ reqs[r].kind = "delete" /\ reqs[r].pc = "delete"
    /\ tblProperties' = DeleteTable(tblProperties, reqs[r].id)
    /\ clock' = clock + 1
    /\ Emit(Event("propertyDeleted", reqs[r].id, Null, r))
    /\ reqs' = [Respond(r, 200, Null) EXCEPT ![r].wrote = clock + 1]
    /\ UNCHANGED <<seqProperties, userVars, tokens, socket, appVars>>

\* The DELETE runs: 404 when it changed no row, else propertyDeleted and 200.
DeleteExec(r) ==
    /\ r \in DOMAIN reqs /\ reqs[r].kind = "delete" /\ reqs[r].pc = "delete"
    /\ LET id == reqs[r].id
           deleted == id \in DOMAIN tblProperties
       IN /\ tblProperties' = DeleteTable(tblProperties, id)
          /\ IF deleted
             THEN /\ clock' = clock + 1
                  /\ Emit(Event("propertyDeleted", id, Null, r))
                  /\ reqs' = [Respond(r, 200, Null) EXCEPT ![r].wrote = clock + 1]
             ELSE /\ clock' = clock
                  /\ reqs' = Respond(r, 404, Null)
                  /\ UNCHANGED netVars
    /\ UNCHANGED <<seqProperties, userVars, tokens, socket, appVars>>

DeleteAllRequest(c, tok) ==
    /\ CanReceive
    /\ reqs' = Append(reqs,
          IF AdminGate(tok) # 0
          THEN [NewReq("deleteAll", c, "done", 0, Null, tok) EXCEPT !.status = AdminGate(tok)]
          ELSE NewReq("deleteAll", c, "delete", 0, Null, tok))
    /\ UNCHANGED <<dbVars, userVars, tokens, netVars, socket, appVars>>

\* DELETE FROM properties runs; allPropertiesDeleted carries the count.
DeleteAllExec(r) ==
    /\ r \in DOMAIN reqs /\ reqs[r].kind = "deleteAll" /\ reqs[r].pc = "delete"
    /\ LET count == Cardinality(DOMAIN tblProperties)
       IN /\ tblProperties' = EmptyTable
          /\ clock' = clock + 1
          /\ Emit(Event("allPropertiesDeleted", 0, [count |-> count], r))
          /\ reqs' = [Respond(r, 200, [count |-> count]) EXCEPT ![r].wrote = clock + 1]
    /\ UNCHANGED <<seqProperties, userVars, tokens, socket, appVars>>

(***************************************************************************)
(* GET /api/properties and GET /api/properties/:id                         *)
(***************************************************************************)
ListRequest(c) ==
    /\ CanReceive
    /\ reqs' = Append(reqs, NewReq("list", c, "select", 0, Null, NoToken))
    /\ UNCHANGED <<dbVars, userVars, tokens, netVars, socket, appVars>>

\* getAllProperties returns; the snapshot is sent.
ListExec(r) ==
    /\ r \in DOMAIN reqs /\ reqs[r].kind = "list" /\ reqs[r].pc = "select"
    /\ reqs' = Respond(r, 200, getAllProperties(tblProperties))
    /\ UNCHANGED <<dbVars, userVars, tokens, netVars, socket, appVars>>

\* getAllProperties rejects (the store reports an error): the catch answers 500.
ListFail(r) ==
    /\ r \in DOMAIN reqs /\ reqs[r].kind = "list" /\ reqs[r].pc = "select"
    /\ reqs' = Respond(r, 500, Null)
    /\ UNCHANGED <<dbVars, userVars, tokens, netVars, socket, appVars>>

GetRequest(c, id) ==
    /\ CanReceive
    /\ reqs' = Append(reqs, NewReq("get", c, "select", id, Null, NoToken))
    /\ UNCHANGED <<dbVars, userVars, tokens, netVars, socket, appVars>>

\* getPropertyById returns: 404 or the property.
GetExec(r) ==
    /\ r \in DOMAIN reqs /\ reqs[r].kind = "get" /\ reqs[r].pc = "select"
    /\ LET property == getPropertyById(tblProperties, reqs[r].id)
       IN reqs' = IF property = Null THEN Respond(r, 404, Null)
                  ELSE Respond(r, 200, property)
    /\ UNCHANGED <<dbVars, userVars, tokens, netVars, socket, appVars>>

(***************************************************************************)
(* db.js: the users table.  A row is [id, email, name, role, active,       *)
(* password]; e-mail addresses are numbered 1..MaxUsers.                   *)
(***************************************************************************)
Emails == 1..MaxUsers
Roles == {"admin", "editor", "viewer"}

\* Database.createDefaultAdmin: admin@clintonville.com is address 1.
DefaultAdmin == [id |-> 1, email |-> 1, name |-> "Admin User", role |-> "admin",
                 active |-> 1, password |-> "admin123"]

\* A lookup by e-mail that does not test the active flag.
getUserByEmailAny(tbl, email) ==
    LET hit == {i \in DOMAIN tbl : tbl[i].email = email}
    IN IF hit = {} THEN Null ELSE tbl[CHOOSE i \in hit : TRUE]

\* Database.getUserByEmail: SELECT * FROM users WHERE email = ? AND active = 1
getUserByEmail(tbl, email) ==
    LET hit == {i \in DOMAIN tbl : tbl[i].email = email /\ tbl[i].active = 1}
    IN IF hit = {} THEN Null ELSE tbl[CHOOSE i \in hit : TRUE]

\* The SET clauses of Database.updateUser.
UserFields(updates) ==
    {k \in {"name", "email", "role", "password", "active"} : Has(updates, k)}

\* The row after UPDATE users SET <fields>.
UpdatedUser(row, updates) ==
    [id |-> row.id,
     email |-> IF Has(updates, "email") THEN updates.email ELSE row.email,
     name |-> IF Has(updates, "name") THEN updates.name ELSE row.name,
     role |-> IF Has(updates, "role") THEN updates.role ELSE row.role,
     active |-> IF Has(updates, "active")
                THEN (IF updates.active THEN 1 ELSE 0) ELSE row.active,
     password |-> IF Has(updates, "password") THEN updates.password ELSE row.password]

\* The UNIQUE constraint on users.email: another row holds the address.
EmailTaken(tbl, id, email) == \E i \in DOMAIN tbl : i # id /\ tbl[i].email = email

\* An exception thrown inside a sqlite3 callback is caught by nobody: the process
\* dies, request r and every other handler in flight get no response.
Crash(r) ==
    [i \in DOMAIN reqs |->
        IF reqs[i].pc \in {"done", "applied", "crashed", "aborted"} THEN reqs[i]
        ELSE [reqs[i] EXCEPT !.pc = IF i = r THEN "crashed" ELSE "aborted",
                             !.existing = Null, !.updates = Null]]

(***************************************************************************)
(* POST /api/auth/login                                                    *)
(***************************************************************************)
\* The request arrives: 400 without a password, else getUserByEmail is issued.
LoginRequest(c, email, password) ==
    /\ CanReceive
    /\ LET body == [email |-> email, password |-> password]
       IN reqs' = Append(reqs,
             IF password = ""
             THEN [NewReq("login", c, "done", 0, body, NoToken) EXCEPT !.status = 400]
             ELSE NewReq("login", c, "lookup", 0, body, NoToken))
    /\ UNCHANGED <<dbVars, userVars, tokens, netVars, socket, appVars>>

\* getUserByEmail returns: 401, or verifyPassword is issued.
LoginLookup(r) ==
    /\ r \in DOMAIN reqs /\ reqs[r].kind = "login" /\ reqs[r].pc = "lookup"
    /\ LET user == getUserByEmail(tblUsers, reqs[r].body.email)
       IN reqs' = IF user = Null THEN Respond(r, 401, Null)
                  ELSE [reqs EXCEPT ![r].pc = "verify", ![r].existing = user]
    /\ UNCHANGED <<dbVars, userVars, tokens, netVars, socket, appVars>>

\* Database.verifyPassword reads the hash of the active row with that e-mail:
\* no row resolves false (401); otherwise bcrypt.compare is issued on that hash.
LoginVerify(r) ==
    /\ r \in DOMAIN reqs /\ reqs[r].kind = "login" /\ reqs[r].pc = "verify"
    /\ LET row == getUserByEmail(tblUsers, reqs[r].body.email)
       IN reqs' = IF row = Null THEN Respond(r, 401, Null)
                  ELSE [reqs EXCEPT ![r].pc = "compare",
                                    ![r].updates = [password_hash |-> row.password]]
    /\ UNCHANGED <<dbVars, userVars, tokens, netVars, socket, appVars>>

\* bcrypt.compare resolves: 401, or a token is signed with the claims of the row
\* that getUserByEmail returned.
LoginCompare(r) ==
    /\ r \in DOMAIN reqs /\ reqs[r].kind = "login" /\ reqs[r].pc = "compare"
    /\ LET user == reqs[r].existing
           token == [id |-> user.id, email |-> user.email, name |-> user.name,
                     role |-> user.role]
       IN IF reqs[r].body.password = reqs[r].updates.password_hash
          THEN /\ tokens' = tokens \cup {token}
               /\ reqs' = Respond(r, 200, token)
          ELSE /\ tokens' = tokens
               /\ reqs' = Respond(r, 401, Null)
    /\ UNCHANGED <<dbVars, userVars, netVars, socket, appVars>>

(***************************************************************************)
(* PUT /api/users/:id, DELETE /api/users/:id, POST /api/users              *)
(***************************************************************************)
\* `updates.role && userId === req.user.id`
OwnRoleChange(tok, id, updates) ==
    Has(updates, "role") /\ updates.role # "" /\ id = tok.id

\* The request arrives: the gates, the own-role check, then updateUser is called,
\* which resolves null (404) when no field is to be set.
UserPutRequest(c, tok, id, updates) ==
    /\ CanReceive
    /\ reqs' = Append(reqs,
          IF AdminGate(tok) # 0
          THEN [NewReq("userPut", c, "done", id, updates, tok) EXCEPT !.status = AdminGate(tok)]
          ELSE IF OwnRoleChange(tok, id, updates)
          THEN [NewReq("userPut", c, "done", id, updates, tok) EXCEPT !.status = 400]
          ELSE IF UserFields(updates) = {}
          THEN [NewReq("userPut", c, "done", id, updates, tok) EXCEPT !.status = 404]
          ELSE NewReq("userPut", c, "write", id, updates, tok))
    /\ UNCHANGED <<dbVars, userVars, tokens, netVars, socket, appVars>>

\* An updateUser whose callback reaches getUserById: 404 when that returns no row
\* (it selects active rows only), else the user.
UserPutWriteResolved(r) ==
    /\ r \in DOMAIN reqs /\ reqs[r].kind = "userPut" /\ reqs[r].pc = "write"
    /\ LET id == reqs[r].id
           updates == reqs[r].body
       IN IF Has(updates, "email") /\ id \in DOMAIN tblUsers
             /\ EmailTaken(tblUsers, id, updates.email)
          THEN /\ reqs' = Respond(r, 500, Null)
               /\ UNCHANGED tblUsers
          ELSE /\ tblUsers' = IF id \in DOMAIN tblUsers
                              THEN [tblUsers EXCEPT ![id] = UpdatedUser(@, updates)]
                              ELSE tblUsers
               /\ reqs' = IF id \in DOMAIN tblUsers /\ UpdatedUser(tblUsers[id], updates).active = 1
                          THEN Respond(r, 200, Null)
                          ELSE Respond(r, 404, Null)
    /\ UNCHANGED <<dbVars, seqUsers, tokens, netVars, socket, appVars>>

\* The UPDATE runs.  A UNIQUE violation rejects (500).  Otherwise the callback calls
\* `database.getUserById`, and db.js defines no `database`: a ReferenceError.
UserPutWrite(r) ==
    /\ r \in DOMAIN reqs /\ reqs[r].kind = "userPut" /\ reqs[r].pc = "write"
    /\ LET id == reqs[r].id
           updates == reqs[r].body
       IN IF Has(updates, "email") /\ id \in DOMAIN tblUsers
             /\ EmailTaken(tblUsers, id, updates.email)
          THEN /\ reqs' = Respond(r, 500, Null)
               /\ UNCHANGED tblUsers
          ELSE /\ tblUsers' = IF id \in DOMAIN tblUsers
                              THEN [tblUsers EXCEPT ![id] = UpdatedUser(@, updates)]
                              ELSE tblUsers
               /\ reqs' = Crash(r)
    /\ UNCHANGED <<dbVars, seqUsers, tokens, netVars, socket, appVars>>

\* The request arrives: the gates, the own-account check, then deleteUser is called.
UserDeleteRequest(c, tok, id) ==
    /\ CanReceive
    /\ reqs' = Append(reqs,
          IF AdminGate(tok) # 0
          THEN [NewReq("userDelete", c, "done", id, Null, tok) EXCEPT !.status = AdminGate(tok)]
          ELSE IF id = tok.id
          THEN [NewReq("userDelete", c, "done", id, Null, tok) EXCEPT !.status = 400]
          ELSE NewReq("userDelete", c, "write", id, Null, tok))
    /\ UNCHANGED <<dbVars, userVars, tokens, netVars, socket, appVars>>

\* UPDATE users SET active = 0 WHERE id = ? runs; 200 whether or not a row matched.
UserDeleteWrite(r) ==
    /\ r \in DOMAIN reqs /\ reqs[r].kind = "userDelete" /\ reqs[r].pc = "write"
    /\ LET id == reqs[r].id
       IN tblUsers' = IF id \in DOMAIN tblUsers
                      THEN [tblUsers EXCEPT ![id].active = 0]
                      ELSE tblUsers
    /\ reqs' = Respond(r, 200, Null)
    /\ UNCHANGED <<dbVars, seqUsers, tokens, netVars, socket, appVars>>

\* Creates whose INSERT has not run yet.
PendingUserInserts ==
    {r \in DOMAIN reqs : reqs[r].kind = "userPost" /\ reqs[r].pc = "insert"}

\* The request arrives: the gates, the role check (default viewer), then createUser
\* is called.  (Bodies that lack a required field, answered 400, are not drawn.)
UserPostRequest(c, tok, email, role, password) ==
    /\ CanReceive
    /\ seqUsers + Cardinality(PendingUserInserts) < MaxUsers
    /\ LET userRole == OrStr(role, "viewer")
           body == [email |-> email, name |-> "New User", role |-> userRole,
                    password |-> password]
       IN reqs' = Append(reqs,
          IF AdminGate(tok) # 0
          THEN [NewReq("userPost", c, "done", 0, body, tok) EXCEPT !.status = AdminGate(tok)]
          ELSE IF userRole \notin Roles
          THEN [NewReq("userPost", c, "done", 0, body, tok) EXCEPT !.status = 400]
          ELSE NewReq("userPost", c, "insert", 0, body, tok))
    /\ UNCHANGED <<dbVars, userVars, tokens, netVars, socket, appVars>>

\* The INSERT runs.  A UNIQUE violation rejects with "already exists" (400).
\* Otherwise the callback reads `this.db.get` on the statement, which has no `db`:
\* a TypeError.
UserPostInsert(r) ==
    /\ r \in DOMAIN reqs /\ reqs[r].kind = "userPost" /\ reqs[r].pc = "insert"
    /\ LET body == reqs[r].body
           lastID == seqUsers + 1
       IN IF EmailTaken(tblUsers, 0, body.email)
          THEN /\ reqs' = Respond(r, 400, Null)
               /\ UNCHANGED userVars
          ELSE /\ tblUsers' = [i \in DOMAIN tblUsers \cup {lastID} |->
                                 IF i = lastID
                                 THEN [id |-> lastID, email |-> body.email,
                                       name |-> body.name,
                                       role |-> body.role, active |-> 1,
                                       password |-> body.password]
                                 ELSE tblUsers[i]]
               /\ seqUsers' = lastID
               /\ reqs' = Crash(r)
    /\ UNCHANGED <<dbVars, tokens, netVars, socket, appVars>>

(***************************************************************************)
(* GET /api/users and GET /api/auth/me                                     *)
(***************************************************************************)
\* The columns the user queries select: the row without its password hash.
UserSummary(row) ==
    [id |-> row.id, email |-> row.email, name |-> row.name, role |-> row.role,
     active |-> row.active]

\* Database.getAllUsers: every row, active or not (the order is not modelled).
getAllUsers(tbl) == {UserSummary(tbl[i]) : i \in DOMAIN tbl}

\* Database.getUserById: SELECT ... FROM users WHERE id = ? AND active = 1
getUserById(tbl, id) ==
    IF id \in DOMAIN tbl /\ tbl[id].active = 1 THEN UserSummary(tbl[id]) ELSE Null

\* The request arrives: the gates, then getAllUsers is called.
UserListRequest(c, tok) ==
    /\ CanReceive
    /\ reqs' = Append(reqs,
          IF AdminGate(tok) # 0
          THEN [NewReq("userList", c, "done", 0, Null, tok) EXCEPT !.status = AdminGate(tok)]
          ELSE NewReq("userList", c, "select", 0, Null, tok))
    /\ UNCHANGED <<dbVars, userVars, tokens, netVars, socket, appVars>>

\* getAllUsers returns; the rows are sent.
UserListExec(r) ==
    /\ r \in DOMAIN reqs /\ reqs[r].kind = "userList" /\ reqs[r].pc = "select"
    /\ reqs' = Respond(r, 200, getAllUsers(tblUsers))
    /\ UNCHANGED <<dbVars, userVars, tokens, netVars, socket, appVars>>

\* The request arrives: authenticateToken, then getUserById(req.user.id) is called.
MeRequest(c, tok) ==
    /\ CanReceive
    /\ reqs' = Append(reqs,
          IF authenticateToken(tok) # 0
          THEN [NewReq("me", c, "done", 0, Null, tok)
                   EXCEPT !.status = authenticateToken(tok)]
          ELSE NewReq("me", c, "select", tok.id, Null, tok))
    /\ UNCHANGED <<dbVars, userVars, tokens, netVars, socket, appVars>>

\* getUserById returns: 404 or the user.
MeExec(r) ==
    /\ r \in DOMAIN reqs /\ reqs[r].kind = "me" /\ reqs[r].pc = "select"
    /\ LET user == getUserById(tblUsers, reqs[r].id)
       IN reqs' = IF user = Null THEN Respond(r, 404, Null)
                  ELSE Respond(r, 200, user)
    /\ UNCHANGED <<dbVars, userVars, tokens, netVars, socket, appVars>>

(***************************************************************************)
(* POST /api/feature-request and emailService.js                           *)
(***************************************************************************)
\* String.prototype.trim on a description given as its sequence of characters.
RECURSIVE TrimStart(_)
TrimStart(d) == IF d # << >> /\ Head(d) = " " THEN TrimStart(Tail(d)) ELSE d

RECURSIVE TrimEnd(_)
TrimEnd(d) ==
    IF d # << >> /\ d[Len(d)] = " " THEN TrimEnd(SubSeq(d, 1, Len(d) - 1)) ELSE d

Trim(d) == TrimEnd(TrimStart(d))

\* What sendFeatureRequestEmail resolves to: no transporter was created at start-up,
\* sendMail resolved, sendMail threw.
NotConfigured == [success |-> FALSE, error |-> "Email service not configured"]
Sent == [success |-> TRUE, messageId |-> "id"]
SendFailed == [success |-> FALSE, error |-> "error.message"]

\* `transporter` is created once, when the module is loaded: the results of the
\* feature requests answered so far tell whether this process has one.
MailResults ==
    LET seen == {reqs[q].out : q \in {i \in DOMAIN reqs : reqs[i].kind = "feature"}}
    IN IF NotConfigured \in seen THEN {NotConfigured}
       ELSE IF seen \cap {Sent, SendFailed} # {} THEN {Sent, SendFailed}
       ELSE {NotConfigured, Sent, SendFailed}

\* The request arrives: 400 without a description, else the mail is handed over.
FeatureRequest(c, description) ==
    /\ CanReceive
    /\ LET body == [description |-> description]
       IN reqs' = Append(reqs,
             IF Trim(description) = << >>
             THEN [NewReq("feature", c, "done", 0, body, NoToken) EXCEPT !.status = 400]
             ELSE NewReq("feature", c, "mail", 0, body, NoToken))
    /\ UNCHANGED <<dbVars, userVars, tokens, netVars, socket, appVars>>

\* sendFeatureRequestEmail resolves: 200 when result.success, else 500.
FeatureMail(r, result) ==
    /\ r \in DOMAIN reqs /\ reqs[r].kind = "feature" /\ reqs[r].pc = "mail"
    /\ result \in MailResults
    /\ reqs' = Respond(r, IF result.success THEN 200 ELSE 500, result)
    /\ UNCHANGED <<dbVars, userVars, tokens, netVars, socket, appVars>>

(***************************************************************************)
(* App.tsx: the App component (one mounted instance) and its socket.       *)
(***************************************************************************)
\* The backend -> frontend transformation of PropertyService and of the socket
\* listeners.
ToProperty(data) ==
    [id |-> data.id,
     address |-> data.address,
     zoning |-> data.zoning,
     value |-> data.value,
     notes |-> OrStr(data.notes, ""),
     coordinates |-> data.coordinates,
     thumbsUp |-> OrNum(data.thumbsUp, 0),
     thumbsDown |-> OrNum(data.thumbsDown, 0),
     createdBy |-> data.createdBy,
     rev |-> data.rev]

\* prev.map(prop => prop.id === p.id ? p : prop)
ReplaceById(prev, p) == [i \in DOMAIN prev |-> IF prev[i].id = p.id THEN p ELSE prev[i]]

\* [...prev, p] without the look-up.
AddAlways(prev, p) == Append(prev, p)

\* prev.find(q => q.id === p.id) ? prev : [...prev, p]
AddIfAbsent(prev, p) ==
    IF \E i \in DOMAIN prev : prev[i].id = p.id THEN prev ELSE Append(prev, p)

\* prev.filter(prop => prop.id !== id)
KeepOther(q, id) == q.id # id
RemoveById(prev, id) == SelectSeq(prev, LAMBDA q : KeepOther(q, id))

\* The ids the cache holds.
CachedIds == {properties[i].id : i \in DOMAIN properties}

\* `selectedProperty && selectedProperty.id === id` in a closure over sel.
IsSelected(sel, id) == sel # Null /\ sel.id = id

\* setSelectedProperty(p) with a newly built object p: the state changes, so the
\* socket effect (dependencies [API_URL, selectedProperty]) must re-run.
SelectObject(p) == selectedProperty' = p /\ effectStale' = TRUE

\* setSelectedProperty(null): a change unless it was null already.
SelectNull ==
    /\ selectedProperty' = Null
    /\ effectStale' = (effectStale \/ selectedProperty # Null)

\* Mount: the socket effect opens a connection; the fetch effect clears the cache
\* and calls propertyService.fetchProperties().
Mount ==
    /\ ~mounted
    /\ CanReceive
    /\ mounted' = TRUE
    /\ socket' = "connecting"
    /\ properties' = << >>
    /\ capturedSelected' = selectedProperty
    /\ reqs' = Append(reqs, NewReq("list", "app", "select", 0, Null, NoToken))
    /\ UNCHANGED <<dbVars, userVars, tokens, netVars, selectedProperty, effectStale>>

\* The connection is established, for the first time or again; the 'connect'
\* listener only logs.
SocketConnect ==
    /\ socket \in {"connecting", "reconnecting"}
    /\ socket' = "connected"
    /\ UNCHANGED <<dbVars, userVars, tokens, reqs, netVars, appVars>>

\* The connection drops; socket.io-client will reconnect.  Events in flight are lost.
SocketDrop ==
    /\ socket = "connected"
    /\ socket' = "reconnecting"
    /\ channel' = << >>
    /\ lostEvents' = (lostEvents \/ channel # << >>)
    /\ UNCHANGED <<dbVars, userVars, tokens, reqs, emitted, appVars>>

\* The socket effect re-runs after selectedProperty changed: its cleanup disconnects
\* the socket, then a new connection is opened with listeners that close over the
\* current selectedProperty.  React runs an effect after the render that follows the
\* state change has been committed, so the old listeners (and their closure) stay in
\* place until this step.
RerunSocketEffect ==
    /\ mounted /\ effectStale
    /\ effectStale' = FALSE
    /\ capturedSelected' = selectedProperty
    /\ socket' = "connecting"
    /\ channel' = << >>
    /\ lostEvents' = (lostEvents \/ channel # << >>)
    /\ UNCHANGED <<dbVars, userVars, tokens, reqs, emitted, properties,
                   selectedProperty, mounted>>

\* The 'propertyCreated' listener.
OnPropertyCreated ==
    /\ channel # << >> /\ Head(channel).type = "propertyCreated"
    /\ channel' = Tail(channel)
    /\ properties' = AddIfAbsent(properties, ToProperty(Head(channel).data))
    /\ UNCHANGED <<dbVars, userVars, tokens, reqs, emitted, lostEvents, socket,
                   selectedProperty, mounted, capturedSelected, effectStale>>

\* The 'propertyUpdated' listener.
OnPropertyUpdated ==
    /\ channel # << >> /\ Head(channel).type = "propertyUpdated"
    /\ channel' = Tail(channel)
    /\ LET transformedProperty == ToProperty(Head(channel).data)
       IN /\ properties' = ReplaceById(properties, transformedProperty)
          /\ IF IsSelected(capturedSelected, transformedProperty.id)
             THEN SelectObject(transformedProperty)
             ELSE UNCHANGED <<selectedProperty, effectStale>>
    /\ UNCHANGED <<dbVars, userVars, tokens, reqs, emitted, lostEvents, socket,
                   mounted, capturedSelected>>

\* The 'propertyDeleted' listener.
OnPropertyDeleted ==
    /\ channel # << >> /\ Head(channel).type = "propertyDeleted"
    /\ channel' = Tail(channel)
    /\ properties' = RemoveById(properties, Head(channel).id)
    /\ IF IsSelected(capturedSelected, Head(channel).id)
       THEN SelectNull
       ELSE UNCHANGED <<selectedProperty, effectStale>>
    /\ UNCHANGED <<dbVars, userVars, tokens, reqs, emitted, lostEvents, socket,
                   mounted, capturedSelected>>

\* The 'allPropertiesDeleted' listener.
OnAllPropertiesDeleted ==
    /\ channel # << >> /\ Head(channel).type = "allPropertiesDeleted"
    /\ channel' = Tail(channel)
    /\ properties' = << >>
    /\ SelectNull
    /\ UNCHANGED <<dbVars, userVars, tokens, reqs, emitted, lostEvents, socket,
                   mounted, capturedSelected>>

\* handlePropertySelect / handlePropertyClick on a property of the cache.
HandlePropertySelect(i) ==
    /\ mounted /\ i \in DOMAIN properties
    /\ properties[i] # selectedProperty
    /\ SelectObject(properties[i])
    /\ UNCHANGED <<dbVars, userVars, tokens, reqs, netVars, socket, properties,
                   mounted, capturedSelected>>

\* handleCloseProperty.
HandleCloseProperty ==
    /\ mounted /\ selectedProperty # Null
    /\ SelectNull
    /\ UNCHANGED <<dbVars, userVars, tokens, reqs, netVars, socket, properties,
                   mounted, capturedSelected>>

\* The calls the App's handlers make for a property it shows.
HandleVote(id, vote) == mounted /\ id \in CachedIds /\ VoteRequest("app", id, vote)
HandleEdit(id, body) == mounted /\ id \in CachedIds /\ PutRequest("app", id, body)
HandleDelete(tok, id) == mounted /\ id \in CachedIds /\ DeleteRequest("app", tok, id)
HandleDeleteAll(tok) == mounted /\ DeleteAllRequest("app", tok)
HandleAddAddress(tok, body) == mounted /\ CreateRequest("app", tok, body)

\* A response to the App has arrived and its continuation has not run yet.
Answered(r, kinds) ==
    r \in DOMAIN reqs /\ reqs[r].client = "app" /\ reqs[r].kind \in kinds
    /\ reqs[r].pc = "done"

\* `response.ok`
Ok(r) == reqs[r].status \in {200, 201}

\* The continuation has run.
Applied(r) == [reqs EXCEPT ![r].pc = "applied"]

\* A fetch continuation that merges the snapshot into the cache, and keeps the
\* cache when the fetch fails.
FetchDoneMerged(r) ==
    /\ Answered(r, {"list"})
    /\ properties' =
          IF Ok(r)
          THEN LET fetched == [i \in DOMAIN reqs[r].out |-> ToProperty(reqs[r].out[i])]
               IN fetched \o SelectSeq(properties,
                                LAMBDA q : \A i \in DOMAIN fetched : fetched[i].id # q.id)
          ELSE properties
    /\ reqs' = Applied(r)
    /\ UNCHANGED <<dbVars, userVars, tokens, netVars, socket, selectedProperty,
                   mounted, capturedSelected, effectStale>>

\* fetchProperties: the snapshot replaces the cache; on an error the cache is cleared.
FetchDone(r) ==
    /\ Answered(r, {"list"})
    /\ properties' = IF Ok(r)
                     THEN [i \in DOMAIN reqs[r].out |-> ToProperty(reqs[r].out[i])]
                     ELSE << >>
    /\ reqs' = Applied(r)
    /\ UNCHANGED <<dbVars, userVars, tokens, netVars, socket, selectedProperty,
                   mounted, capturedSelected, effectStale>>

\* handleVote, handleEditNotes, handleEditPrice, handleUpdateProperty after the await.
HandleUpdateDone(r) ==
    /\ Answered(r, {"vote", "put"})
    /\ IF Ok(r)
       THEN LET updatedProperty == ToProperty(reqs[r].out)
            IN /\ properties' = ReplaceById(properties, updatedProperty)
               /\ IF IsSelected(reqs[r].ctx, reqs[r].id)
                  THEN SelectObject(updatedProperty)
                  ELSE UNCHANGED <<selectedProperty, effectStale>>
       ELSE UNCHANGED <<properties, selectedProperty, effectStale>>
    /\ reqs' = Applied(r)
    /\ UNCHANGED <<dbVars, userVars, tokens, netVars, socket, mounted, capturedSelected>>

\* handleAddAddress after the await.
HandleAddAddressDone(r) ==
    /\ Answered(r, {"create"})
    /\ properties' = IF Ok(r) THEN AddIfAbsent(properties, ToProperty(reqs[r].out))
                     ELSE properties
    /\ reqs' = Applied(r)
    /\ UNCHANGED <<dbVars, userVars, tokens, netVars, socket, selectedProperty,
                   mounted, capturedSelected, effectStale>>

\* handleDelete after the await.
HandleDeleteDone(r) ==
    /\ Answered(r, {"delete"})
    /\ IF Ok(r)
       THEN /\ properties' = RemoveById(properties, reqs[r].id)
            /\ IF IsSelected(reqs[r].ctx, reqs[r].id)
               THEN SelectNull
               ELSE UNCHANGED <<selectedProperty, effectStale>>
       ELSE UNCHANGED <<properties, selectedProperty, effectStale>>
    /\ reqs' = Applied(r)
    /\ UNCHANGED <<dbVars, userVars, tokens, netVars, socket, mounted, capturedSelected>>

\* handleDeleteAll after the await.
HandleDeleteAllDone(r) ==
    /\ Answered(r, {"deleteAll"})
    /\ IF Ok(r)
       THEN properties' = << >> /\ SelectNull
       ELSE UNCHANGED <<properties, selectedProperty, effectStale>>
    /\ reqs' = Applied(r)
    /\ UNCHANGED <<dbVars, userVars, tokens, netVars, socket, mounted, capturedSelected>>

(***************************************************************************)
(* The server on a fresh database, and the requests drawn by the model.    *)
(***************************************************************************)
Init ==
    /\ tblProperties = EmptyTable
    /\ seqProperties = 0
    /\ tblUsers = [i \in {1} |-> DefaultAdmin]
    /\ seqUsers = 1
    /\ clock = 0
    /\ tokens = {}
    /\ reqs = << >>
    /\ emitted = << >>
    /\ socket = "disconnected"
    /\ channel = << >>
    /\ properties = << >>
    /\ selectedProperty = Null
    /\ mounted = FALSE
    /\ capturedSelected = Null
    /\ effectStale = FALSE
    /\ lostEvents = FALSE

\* Bodies of PUT /api/properties/:id.
PutBodies == {[notes |-> "edited"], [coordinates |-> <<2, 2>>], [thumbsUp |-> -1]}
\* A body of POST /api/properties.
CreateBody == [address |-> "12 Elm St", coordinates |-> <<1, 1>>]

\* Steps of the handlers of the property routes.
PropertySteps ==
    \E r \in ReqIds :
        \/ PutCheck(r)
        \/ VoteCheck(r)
        \/ UpdateWrite(r)
        \/ UpdateReread(r)
        \/ CreateInsert(r)
        \/ CreateReread(r)
        \/ DeleteExec(r)
        \/ DeleteAllExec(r)

\* Steps of the login handler.
LoginSteps == \E r \in ReqIds : LoginLookup(r) \/ LoginVerify(r) \/ LoginCompare(r)

\* Well-formed requests to the property routes from callers other than the App,
\* each with a token the server has signed where the route asks for one.
PropertyRequests ==
    \/ \E id \in PropIds, body \in PutBodies : PutRequest("other", id, body)
    \/ \E id \in PropIds, vote \in {"up", "down"} : VoteRequest("other", id, vote)
    \/ \E tok \in tokens : CreateRequest("other", tok, CreateBody)
    \/ \E tok \in tokens, id \in PropIds : DeleteRequest("other", tok, id)
    \/ \E tok \in tokens : DeleteAllRequest("other", tok)

\* The seeded administrator logs in.
AdminLogin == LoginRequest("other", DefaultAdmin.email, DefaultAdmin.password)

Next ==
    \/ AdminLogin
    \/ LoginSteps
    \/ PropertyRequests
    \/ PropertySteps

Spec == Init /\ [][Next]_vars

(***************************************************************************)
(* The user routes alone: logins with right and wrong passwords, and the   *)
(* user management requests of callers who hold a signed token.            *)
(***************************************************************************)
\* Passwords tried at login.
PasswordInputs == {"admin123", "wrong"}
\* Bodies of PUT /api/users/:id.
UserPutBodies == {[role |-> "viewer"], [role |-> "admin"], [active |-> FALSE],
                  [active |-> TRUE]}

LoginRequests ==
    \E email \in Emails, password \in PasswordInputs :
        LoginRequest("other", email, password)

UserRequests ==
    \/ \E tok \in tokens, id \in UserIds, updates \in UserPutBodies :
           UserPutRequest("other", tok, id, updates)
    \/ \E tok \in tokens, id \in UserIds : UserDeleteRequest("other", tok, id)
    \/ \E tok \in tokens, email \in Emails, role \in {"admin", "viewer"} :
           UserPostRequest("other", tok, email, role, "admin123")

UserSteps ==
    \E r \in ReqIds :
        \/ UserPutWrite(r)
        \/ UserDeleteWrite(r)
        \/ UserPostInsert(r)

NextUsers ==
    \/ LoginRequests
    \/ LoginSteps
    \/ UserRequests
    \/ UserSteps

SpecUsers == Init /\ [][NextUsers]_vars

(***************************************************************************)
(* The App against the server: the App's own calls, and the calls of       *)
(* other callers.                                                          *)
(***************************************************************************)
\* The body handleEditNotes sends.
NotesBody == [notes |-> "edited"]

AppSocket ==
    \/ Mount
    \/ SocketConnect
    \/ SocketDrop
    \/ RerunSocketEffect
    \/ OnPropertyCreated
    \/ OnPropertyUpdated
    \/ OnPropertyDeleted
    \/ OnAllPropertiesDeleted

AppCalls ==
    \/ \E i \in PropIds : HandlePropertySelect(i)
    \/ HandleCloseProperty
    \/ \E id \in PropIds : HandleVote(id, "up")
    \/ \E id \in PropIds : HandleEdit(id, NotesBody)
    \/ \E tok \in tokens, id \in PropIds : HandleDelete(tok, id)
    \/ \E tok \in tokens : HandleDeleteAll(tok)
    \/ \E tok \in tokens : HandleAddAddress(tok, CreateBody)

AppContinuations ==
    \E r \in ReqIds :
        \/ FetchDone(r)
        \/ HandleUpdateDone(r)
        \/ HandleAddAddressDone(r)
        \/ HandleDeleteDone(r)
        \/ HandleDeleteAllDone(r)

\* Calls of other callers while the App runs.
OtherCalls ==
    \/ \E id \in PropIds : PutRequest("other", id, NotesBody)
    \/ \E id \in PropIds : VoteRequest("other", id, "up")
    \/ \E tok \in tokens : CreateRequest("other", tok, CreateBody)
    \/ \E tok \in tokens, id \in PropIds : DeleteRequest("other", tok, id)
    \/ \E tok \in tokens : DeleteAllRequest("other", tok)

NextApp ==
    \/ AdminLogin
    \/ LoginSteps
    \/ OtherCalls
    \/ PropertySteps
    \/ \E r \in ReqIds : ListExec(r)
    \/ AppSocket
    \/ AppCalls
    \/ AppContinuations

SpecApp == Init /\ [][NextApp]_vars

(***************************************************************************)
(* Properties checked.                                                     *)
(***************************************************************************)
\* The requests that target property id: its votes, puts and deletes, and every
\* delete-all.
Touching(id) ==
    {r \in DOMAIN reqs :
        \/ reqs[r].kind \in {"put", "vote", "delete"} /\ reqs[r].id = id
        \/ reqs[r].kind = "deleteAll"}

\* The votes for property id in direction dir.
VotesFor(id, dir) ==
    {r \in DOMAIN reqs :
        reqs[r].kind = "vote" /\ reqs[r].id = id /\ reqs[r].body.vote = dir}

\* The stored counter of a direction.
Counter(row, dir) == IF dir = "up" THEN row.thumbs_up ELSE row.thumbs_down

\* C1: no vote is lost.  When the only requests that target a property are N
\* votes in one direction and all N have been answered 200, the stored counter of
\* that direction is the value the property was created with (0) plus N.
C1_NoVoteLost ==
    \A id \in DOMAIN tblProperties, dir \in {"up", "down"} :
        (/\ Touching(id) = VotesFor(id, dir)
         /\ \A r \in VotesFor(id, dir) : reqs[r].pc = "done" /\ reqs[r].status = 200)
        => Counter(tblProperties[id], dir) = Cardinality(VotesFor(id, dir))

\* The columns a PUT body names.
Named(body) ==
    {k \in {"address", "zoning", "value", "notes"} : Has(body, k)}
    \cup (IF Has(body, "coordinates") \/ Has(body, "position") THEN {"coordinates"} ELSE {})
    \cup (IF Has(body, "thumbsUp") THEN {"thumbs_up"} ELSE {})
    \cup (IF Has(body, "thumbsDown") THEN {"thumbs_down"} ELSE {})

\* C5: partial merge.  The write of a PUT changes only the columns its body
\* names (and the update stamp): every other column keeps the value it had
\* immediately before the write, whatever committed since the existence check.
C5_PartialMerge ==
    [][\A r \in DOMAIN reqs :
          (/\ reqs[r].kind = "put" /\ reqs[r].pc = "write" /\ reqs'[r].pc = "reread"
           /\ reqs[r].id \in DOMAIN tblProperties)
          => \A k \in {"address", "zoning", "value", "notes", "coordinates",
                       "thumbs_up", "thumbs_down", "created_by"} \ Named(reqs[r].body) :
                 tblProperties'[reqs[r].id][k] = tblProperties[reqs[r].id][k]]_vars

\* C6: every stored property has thumbsUp >= 0 and thumbsDown >= 0.
C6_CountersNonNegative ==
    \A id \in DOMAIN tblProperties :
        tblProperties[id].thumbs_up >= 0 /\ tblProperties[id].thumbs_down >= 0

\* C7: the counters of a property that continues to exist never decrease from
\* one state to the next.
C7_CountersMonotonic ==
    [][\A id \in DOMAIN tblProperties \cap DOMAIN tblProperties' :
          /\ tblProperties'[id].thumbs_up >= tblProperties[id].thumbs_up
          /\ tblProperties'[id].thumbs_down >= tblProperties[id].thumbs_down]_vars

\* The events request r has caused.
EventsOf(r) == {i \in DOMAIN emitted : emitted[i].req = r}

\* The event kind that matches a route.
EventKind(kind) ==
    IF kind = "create" THEN "propertyCreated"
    ELSE IF kind = "delete" THEN "propertyDeleted"
    ELSE IF kind = "deleteAll" THEN "allPropertiesDeleted"
    ELSE "propertyUpdated"

\* C8: a request whose write committed has, once its handler ended, emitted
\* exactly one event, of the matching kind; an event is emitted only by a request
\* whose write committed; a request answered with an error status emitted none.
C8_OneEventPerCommit ==
    /\ \A i \in DOMAIN emitted :
          /\ reqs[emitted[i].req].wrote # 0
          /\ emitted[i].type = EventKind(reqs[emitted[i].req].kind)
    /\ \A r \in DOMAIN reqs :
          reqs[r].pc = "done" =>
              /\ reqs[r].wrote # 0 => Cardinality(EventsOf(r)) = 1
              /\ reqs[r].status \notin {200, 201} => EventsOf(r) = {}

\* C9: events are emitted (hence delivered on every connection) in the order
\* in which the writes that caused them committed; and a propertyUpdated event
\* never carries an older state of a property than an earlier one for the same id.
C9_EventsInCommitOrder ==
    \A i, j \in DOMAIN emitted :
        i < j =>
            /\ reqs[emitted[i].req].wrote < reqs[emitted[j].req].wrote
            /\ (/\ emitted[i].type = "propertyUpdated"
                /\ emitted[j].type = "propertyUpdated"
                /\ emitted[i].id = emitted[j].id)
               => emitted[i].data.rev <= emitted[j].data.rev

\* C3: the users table always holds an active admin.
C3_ActiveAdminExists ==
    \E i \in DOMAIN tblUsers : tblUsers[i].role = "admin" /\ tblUsers[i].active = 1

\* A request by an authenticated admin to delete, deactivate or change the role
\* of the account the token was issued to.
OnOwnAccount(q) ==
    /\ q.kind \in {"userPut", "userDelete"}
    /\ q.tok \in tokens /\ q.tok.role = "admin"
    /\ q.id = q.tok.id
    /\ \/ q.kind = "userDelete"
       \/ Has(q.body, "role")
       \/ Has(q.body, "active") /\ ~q.body.active

\* C4: no step of the handler of such a request changes the stored record of
\* that account, and when the handler has ended the request has been rejected.
C4_OwnAccountProtected ==
    [][\A r \in DOMAIN reqs :
          (OnOwnAccount(reqs[r]) /\ reqs'[r].pc # reqs[r].pc)
          => /\ tblUsers'[reqs[r].id] = tblUsers[reqs[r].id]
             /\ reqs'[r].pc \in {"done", "crashed"} => reqs'[r].status = 400]_vars

\* The properties the store holds, as the App represents them.
StoreView ==
    {ToProperty(RowToProperty(tblProperties[id])) : id \in DOMAIN tblProperties}

\* The properties the App's cache holds.
CacheView == {properties[i] : i \in DOMAIN properties}

\* Mutations have stopped, the App is connected, and every emitted event and
\* every HTTP response has been delivered and applied.
Quiescent ==
    /\ mounted /\ socket = "connected" /\ ~effectStale
    /\ channel = << >>
    /\ \A r \in DOMAIN reqs :
          reqs[r].pc = (IF reqs[r].client = "app" THEN "applied" ELSE "done")

\* C2: eventual consistency of a connected client.  When the App has missed no
\* event (none was emitted while its socket was not connected, none was dropped
\* with a connection) and the system is quiescent, the cache holds exactly the
\* properties of the store, each once and with the same field values.
C2_CacheEqualsStore ==
    (Quiescent /\ ~lostEvents)
    => CacheView = StoreView /\ Len(properties) = Cardinality(StoreView)

\* C10: reconnection resync.  The step that re-establishes a dropped connection
\* makes the App repeat the snapshot fetch: it issues a new GET /api/properties.
C10_ReconnectRefetches ==
    [][(socket = "reconnecting" /\ socket' = "connected")
       => /\ Len(reqs') = Len(reqs) + 1
          /\ reqs'[Len(reqs')].kind = "list"
          /\ reqs'[Len(reqs')].client = "app"]_vars

(***************************************************************************)
(* The App's start: mount, first connection and snapshot fetch, while      *)
(* another caller creates properties.                                      *)
(***************************************************************************)
NextFetch ==
    \/ AdminLogin
    \/ LoginSteps
    \/ \E tok \in tokens : CreateRequest("other", tok, CreateBody)
    \/ \E r \in ReqIds : CreateInsert(r)
    \/ \E r \in ReqIds : CreateReread(r)
    \/ Mount
    \/ SocketConnect
    \/ OnPropertyCreated
    \/ \E r \in ReqIds : ListExec(r)
    \/ \E r \in ReqIds : ListFail(r)
    \/ \E r \in ReqIds : FetchDone(r)

SpecFetch == Init /\ [][NextFetch]_vars

\* The App's snapshot fetch r has been answered and its continuation runs in this step.
FetchCompletes(r) ==
    /\ reqs[r].client = "app" /\ reqs[r].kind = "list"
    /\ reqs[r].pc = "done" /\ reqs'[r].pc = "applied"

\* C11: the step that starts the App (its first connect) issues the snapshot
\* fetch list(); the step in which that fetch completes leaves a cache that is
\* exactly the fetched collection, entry by entry (whatever the cache held before
\* is dropped, nothing is merged), and an empty cache when the fetch failed.
C11_FetchReplacesCache ==
    [][/\ (~mounted /\ mounted')
          => /\ socket' = "connecting"
             /\ Len(reqs') = Len(reqs) + 1
             /\ reqs'[Len(reqs')].kind = "list" /\ reqs'[Len(reqs')].client = "app"
       /\ \A r \in DOMAIN reqs :
             FetchCompletes(r)
             => IF reqs[r].status = 200
                THEN /\ Len(properties') = Len(reqs[r].out)
                     /\ \A i \in DOMAIN reqs[r].out :
                           properties'[i] = ToProperty(reqs[r].out[i])
                ELSE properties' = << >>]_vars

\* C11 witness: a fetch answered with the empty snapshot has completed after a
\* propertyCreated event had been applied to the cache: the entry is gone.
C11_EntryDropped ==
    /\ \E r \in DOMAIN reqs :
          /\ reqs[r].client = "app" /\ reqs[r].kind = "list"
          /\ reqs[r].pc = "applied" /\ reqs[r].status = 200 /\ reqs[r].out = << >>
    /\ emitted # << >> /\ channel = << >> /\ ~lostEvents
    /\ properties = << >>

\* A listener of the App's socket handles the event at the head of the channel in
\* this step.
Receives(types) ==
    /\ channel # << >> /\ Head(channel).type \in types
    /\ channel' = Tail(channel) /\ socket' = socket

\* The entries of a cache whose id is not id.
Others(cache, id) == {cache[i] : i \in {j \in DOMAIN cache : cache[j].id # id}}

\* C12: upsert by id.  After the listener of a propertyCreated or propertyUpdated
\* event carrying entity e has run, the cache holds exactly one entry with id
\* e.id, that entry equals e, and the entries with other ids are the same as before.
C12_UpsertById ==
    [][Receives({"propertyCreated", "propertyUpdated"})
       => LET e == ToProperty(Head(channel).data)
          IN /\ Cardinality({i \in DOMAIN properties' : properties'[i].id = e.id}) = 1
             /\ \A i \in DOMAIN properties' :
                   properties'[i].id = e.id => properties'[i] = e
             /\ Others(properties', e.id) = Others(properties, e.id)]_vars

\* C13: after the listener of propertyDeleted{id} has run, the cache has no entry
\* with that id and its other entries are the same as before; after the listener
\* of allPropertiesDeleted the cache is empty; and in both cases no property that
\* the event removed is still selected.
C13_DeleteEventsApplied ==
    [][/\ Receives({"propertyDeleted"})
          => /\ \A i \in DOMAIN properties' : properties'[i].id # Head(channel).id
             /\ Others(properties', Head(channel).id) = Others(properties, Head(channel).id)
             /\ ~IsSelected(selectedProperty', Head(channel).id)
       /\ Receives({"allPropertiesDeleted"})
          => properties' = << >> /\ selectedProperty' = Null]_vars

(***************************************************************************)
(* Votes on created properties.                                            *)
(***************************************************************************)
NextVote ==
    \/ AdminLogin
    \/ LoginSteps
    \/ \E tok \in tokens : CreateRequest("other", tok, CreateBody)
    \/ \E r \in ReqIds : CreateInsert(r)
    \/ \E r \in ReqIds : CreateReread(r)
    \/ \E id \in PropIds, vote \in {"up", "down"} : VoteRequest("other", id, vote)
    \/ \E r \in ReqIds : VoteCheck(r)
    \/ \E r \in ReqIds : UpdateWrite(r)
    \/ \E r \in ReqIds : UpdateReread(r)

SpecVote == Init /\ [][NextVote]_vars

\* The UPDATE of request r (a PUT or a vote) runs in this step, on a row that no
\* mutation has touched since the request's existence check read it.
WritesUndisturbed(r, kind) ==
    /\ reqs[r].kind = kind /\ reqs[r].pc = "write" /\ reqs'[r].pc = "reread"
    /\ reqs[r].id \in DOMAIN tblProperties
    /\ reqs[r].existing = RowToProperty(tblProperties[reqs[r].id])

\* The columns of a property apart from its update stamp.
DataColumns ==
    {"id", "address", "zoning", "value", "notes", "coordinates", "thumbs_up",
     "thumbs_down", "created_by"}

\* The column a vote direction counts in.
CounterColumn(dir) == IF dir = "up" THEN "thumbs_up" ELSE "thumbs_down"

\* A vote executed with no other mutation in between raises the counter of its
\* direction by exactly 1 and leaves the columns in `frame` as they were.
VoteCounts(frame) ==
    \A r \in DOMAIN reqs :
        WritesUndisturbed(r, "vote")
        => LET id == reqs[r].id
               col == CounterColumn(reqs[r].body.vote)
           IN /\ tblProperties'[id][col] = tblProperties[id][col] + 1
              /\ \A k \in frame \ {col} : tblProperties'[id][k] = tblProperties[id][k]

\* C14 (amended): voting is not idempotent.  Each vote executed with no other
\* mutation in between raises exactly the counter of its direction by 1 and leaves
\* the other counter and every other field except the last-updated stamp unchanged.
C14_VoteCountsOnce == [][VoteCounts(DataColumns)]_vars

\* C14 (as stated): ... and leaves every other field of the property unchanged,
\* the last-updated stamp included.
C14_VoteChangesNothingElse == [][VoteCounts(DataColumns \cup {"rev"})]_vars

\* C14 witness: two identical votes on one property have been answered 200 and
\* its counter stands at 2.
C14_TwoVotesCountTwo ==
    \E id \in DOMAIN tblProperties, dir \in {"up", "down"} :
        /\ tblProperties[id][CounterColumn(dir)] = 2
        /\ Cardinality({r \in VotesFor(id, dir) :
                           reqs[r].pc = "done" /\ reqs[r].status = 200}) = 2

(***************************************************************************)
(* Updates of stored properties.                                           *)
(***************************************************************************)
NextPut ==
    \/ AdminLogin
    \/ LoginSteps
    \/ \E tok \in tokens : CreateRequest("other", tok, CreateBody)
    \/ \E r \in ReqIds : CreateInsert(r)
    \/ \E r \in ReqIds : CreateReread(r)
    \/ \E id \in DOMAIN tblProperties, body \in PutBodies : PutRequest("other", id, body)
    \/ \E r \in ReqIds : PutCheck(r)
    \/ \E r \in ReqIds : UpdateWrite(r)
    \/ \E r \in ReqIds : UpdateReread(r)

SpecPut == Init /\ [][NextPut]_vars

\* Request r repeats request q: the same patch for the same id, where q has been
\* answered 200 and q's write is the last one the stored property has seen.
Repeats(r, q) ==
    /\ q # r /\ reqs[q].kind = "put" /\ reqs[q].pc = "done" /\ reqs[q].status = 200
    /\ reqs[q].id = reqs[r].id /\ reqs[q].body = reqs[r].body
    /\ reqs[q].wrote = tblProperties[reqs[r].id].rev
    /\ reqs[q].out = RowToProperty(tblProperties[reqs[r].id])

\* The second of two successive identical updates leaves the columns in `frame`
\* as the first left them.
SecondUpdateKeeps(frame) ==
    \A r \in DOMAIN reqs :
        (WritesUndisturbed(r, "put") /\ \E q \in DOMAIN reqs : Repeats(r, q))
        => \A k \in frame : tblProperties'[reqs[r].id][k] = tblProperties[reqs[r].id][k]

\* C15 (amended): update is idempotent.  Applying update(id, patch) a second time,
\* with no other mutation in between, leaves every field of the stored property
\* except the last-updated stamp as the first application left it.
C15_UpdateIdempotent == [][SecondUpdateKeeps(DataColumns)]_vars

\* C15 (as stated): ... leaves the stored property in the same state, the
\* last-updated stamp included.
C15_SecondUpdateChangesNothing == [][SecondUpdateKeeps(DataColumns \cup {"rev"})]_vars

\* C15 witness: the second of two updates with the same patch has just written;
\* its existence check read the property the first one returned, and its write
\* followed the first one's directly.
C15_AppliedTwice ==
    \E r, q \in DOMAIN reqs :
        /\ r # q /\ reqs[r].kind = "put" /\ reqs[q].kind = "put"
        /\ reqs[r].id = reqs[q].id /\ reqs[r].body = reqs[q].body
        /\ reqs[q].pc = "done" /\ reqs[q].status = 200
        /\ reqs[r].pc = "reread" /\ reqs[r].existing = reqs[q].out
        /\ reqs[q].out.rev = reqs[q].wrote
        /\ reqs[r].wrote = reqs[q].wrote + 1

(***************************************************************************)
(* Create, then get.                                                       *)
(***************************************************************************)
\* Create inputs that supply address, zoning, value and a coordinate pair.
CreateInputs ==
    {[address |-> "12 Elm St", zoning |-> "R-2", value |-> 150000,
      coordinates |-> <<1, 2>>],
     [address |-> "7 Oak Ave", zoning |-> "", value |-> 0, coordinates |-> <<0, 0>>]}

NextRoundTrip ==
    \/ AdminLogin
    \/ LoginSteps
    \/ \E tok \in tokens, body \in CreateInputs : CreateRequest("other", tok, body)
    \/ \E r \in ReqIds : CreateInsert(r)
    \/ \E r \in ReqIds : CreateReread(r)
    \/ \E id \in DOMAIN tblProperties : GetRequest("other", id)
    \/ \E r \in ReqIds : GetExec(r)

SpecRoundTrip == Init /\ [][NextRoundTrip]_vars

\* C16: round trip.  A get(id) answered after create(p) returned that id (nothing
\* else writes a property here) returns an entity whose address, zoning, value
\* and coordinates equal those of p.
C16_RoundTrip ==
    \A c, g \in DOMAIN reqs :
        (/\ reqs[c].kind = "create" /\ reqs[c].pc = "done" /\ reqs[c].status = 201
         /\ reqs[g].kind = "get" /\ reqs[g].pc = "done" /\ reqs[g].status = 200
         /\ reqs[g].id = reqs[c].id)
        => \A k \in {"address", "zoning", "value", "coordinates"} :
               reqs[g].out[k] = reqs[c].body[k]

(***************************************************************************)
(* Create with and without an address, with and without a valid token.     *)
(***************************************************************************)
\* A create body without an address.
NoAddressBody == [coordinates |-> <<1, 1>>]

NextCreate ==
    \/ AdminLogin
    \/ LoginSteps
    \/ \E tok \in tokens \cup {NoToken, BadToken}, body \in {CreateBody, NoAddressBody} :
           CreateRequest("other", tok, body)
    \/ \E r \in ReqIds : CreateInsert(r)
    \/ \E r \in ReqIds : CreateReread(r)

SpecCreate == Init /\ [][NextCreate]_vars

\* C17: a create whose body has no address is answered 400, has written nothing
\* to the store and has emitted no event; a create without a valid token is
\* answered by authenticateToken and never reaches the store.
C17_CreateValidated ==
    \A r \in DOMAIN reqs :
        reqs[r].kind = "create" =>
            /\ (reqs[r].pc = "done" /\ reqs[r].tok \in tokens /\ ~Has(reqs[r].body, "address"))
               => reqs[r].status = 400 /\ reqs[r].wrote = 0 /\ EventsOf(r) = {}
            /\ reqs[r].tok \notin tokens
               => /\ reqs[r].pc = "done" /\ reqs[r].status \in {401, 403}
                  /\ reqs[r].wrote = 0 /\ EventsOf(r) = {}

(***************************************************************************)
(* Updates and votes while properties are deleted.                         *)
(***************************************************************************)
NextAbsent ==
    \/ AdminLogin
    \/ LoginSteps
    \/ \E tok \in tokens : CreateRequest("other", tok, CreateBody)
    \/ \E r \in ReqIds : CreateInsert(r)
    \/ \E r \in ReqIds : CreateReread(r)
    \/ \E id \in PropIds : PutRequest("other", id, NotesBody)
    \/ \E id \in PropIds : VoteRequest("other", id, "up")
    \/ \E r \in ReqIds : PutCheck(r)
    \/ \E r \in ReqIds : VoteCheck(r)
    \/ \E r \in ReqIds : UpdateWrite(r)
    \/ \E r \in ReqIds : UpdateReread(r)
    \/ \E tok \in tokens, id \in DOMAIN tblProperties : DeleteRequest("other", tok, id)
    \/ \E r \in ReqIds : DeleteExec(r)

SpecAbsent == Init /\ [][NextAbsent]_vars

\* C18: an update or vote whose id was absent from the store when its write
\* executed (or already when its existence check ran) is answered 404, and it has
\* created no property and emitted no event.
C18_AbsentIsNotFound ==
    \A r \in DOMAIN reqs :
        (reqs[r].kind \in {"put", "vote"} /\ reqs[r].pc = "done" /\ reqs[r].wrote = 0)
        => /\ reqs[r].status = 404
           /\ EventsOf(r) = {}
           /\ \A id \in DOMAIN tblProperties :
                 \E c \in DOMAIN reqs :
                     reqs[c].kind = "create" /\ reqs[c].id = id /\ reqs[c].wrote # 0

(***************************************************************************)
(* Deletes of one property by an admin, any number at a time.              *)
(***************************************************************************)
NextDelete ==
    \/ AdminLogin
    \/ LoginSteps
    \/ \E tok \in tokens : CreateRequest("other", tok, CreateBody)
    \/ \E r \in ReqIds : CreateInsert(r)
    \/ \E r \in ReqIds : CreateReread(r)
    \/ \E tok \in tokens, id \in PropIds : DeleteRequest("other", tok, id)
    \/ \E r \in ReqIds : DeleteExec(r)

SpecDelete == Init /\ [][NextDelete]_vars

\* The deletes of property id that an admin sent and that have been answered.
DeletesDone(id) ==
    {r \in DOMAIN reqs :
        /\ reqs[r].kind = "delete" /\ reqs[r].id = id /\ reqs[r].pc = "done"
        /\ reqs[r].tok \in tokens /\ reqs[r].tok.role = "admin"}

\* The deletes of property id that succeeded.
DeletesOk(id) == {r \in DeletesDone(id) : reqs[r].status = 200}

\* The propertyDeleted events for property id.
DeletedEvents(id) ==
    {i \in DOMAIN emitted : emitted[i].type = "propertyDeleted" /\ emitted[i].id = id}

\* Of the answered deletes of an id, one succeeded if the property was stored and
\* is gone, none otherwise; each success emitted one propertyDeleted event and
\* there are no others; every other delete was answered 404 and emitted nothing.
OneDeleteWins ==
    \A id \in PropIds :
        /\ Cardinality(DeletesOk(id)) =
              (IF id <= seqProperties /\ id \notin DOMAIN tblProperties THEN 1 ELSE 0)
        /\ Cardinality(DeletedEvents(id)) = Cardinality(DeletesOk(id))
        /\ \A r \in DeletesOk(id) : EventsOf(r) \subseteq DeletedEvents(id)
                                     /\ Cardinality(EventsOf(r)) = 1
        /\ \A r \in DeletesDone(id) \ DeletesOk(id) :
              reqs[r].status = 404 /\ EventsOf(r) = {}

\* C19: the step in which an admin's delete(id) executes succeeds if and only if
\* the id is present, and leaves the id absent; and after every step, of any
\* number of deletes of one id exactly one has succeeded and emitted the one
\* propertyDeleted event, every other one got 404 and emitted nothing.
C19_ExactlyOneDelete ==
    [][/\ \A r \in DOMAIN reqs :
             (reqs[r].kind = "delete" /\ reqs[r].pc = "delete" /\ reqs'[r].pc = "done")
             => /\ (reqs'[r].status = 200) <=> (reqs[r].id \in DOMAIN tblProperties)
                /\ reqs[r].id \notin DOMAIN tblProperties'
       /\ OneDeleteWins']_vars

\* C19 witness: two deletes of one property have been answered, one with 200 and
\* one with 404, and one propertyDeleted event exists for it.
C19_OneWonOneLost ==
    \E id \in PropIds :
        /\ Cardinality(DeletesDone(id)) = 2
        /\ Cardinality(DeletesOk(id)) = 1
        /\ Cardinality(DeletedEvents(id)) = 1

(***************************************************************************)
(* Logins while an admin creates and soft-deletes users.                   *)
(***************************************************************************)
\* Credentials tried: the password every account here has, a wrong one, none.
\* E-mails tried: the stored addresses and one that is not stored.
Credentials == {"admin123", "wrong", ""}

NextLogin ==
    \/ \E email \in Emails \cap 1..(seqUsers + 1), password \in Credentials :
           LoginRequest("other", email, password)
    \/ LoginSteps
    \/ \E tok \in tokens : UserPostRequest("other", tok, seqUsers + 1, "viewer", "admin123")
    \/ \E r \in ReqIds : UserPostInsert(r)
    \/ \E tok \in tokens, id \in DOMAIN tblUsers : UserDeleteRequest("other", tok, id)
    \/ \E r \in ReqIds : UserDeleteWrite(r)

SpecLogin == Init /\ [][NextLogin]_vars

\* The users that a login with this e-mail and credential names: stored, active,
\* and with that credential.
Matching(tbl, body) ==
    {i \in DOMAIN tbl :
        tbl[i].email = body.email /\ tbl[i].active = 1 /\ tbl[i].password = body.password}

\* The token claims of a users row.
Claims(row) ==
    [id |-> row.id, email |-> row.email, name |-> row.name, role |-> row.role]

\* Login request r makes its last read of the users table in this step: the
\* lookup that finds no row, or the read of verifyPassword.
LoginDecides(r) ==
    /\ reqs[r].kind = "login"
    /\ \/ reqs[r].pc = "lookup" /\ reqs'[r].pc = "done"
       \/ reqs[r].pc = "verify" /\ reqs'[r].pc \in {"compare", "done"}

\* The comparison of login request r resolves and its response is sent in this step.
LoginCompared(r) ==
    /\ reqs[r].kind = "login" /\ reqs[r].pc = "compare"
    /\ reqs'[r].pc = "done"

\* C20: a login (with e-mail and credential supplied) issues a token if and only
\* if, when the handler reads the users table to verify it, a user with that
\* e-mail exists, is active and has that credential; otherwise it answers 401
\* and issues no token; an issued token carries that user's id, e-mail, display
\* name and the role stored when the response is sent.
C20_LoginIssuesToken ==
    [][\A r \in DOMAIN reqs :
          /\ LoginDecides(r)
             => LET users == Matching(tblUsers, reqs[r].body)
                IN /\ tokens' = tokens
                   /\ IF users # {}
                      THEN /\ reqs'[r].pc = "compare"
                           /\ reqs'[r].updates.password_hash = reqs[r].body.password
                           /\ reqs'[r].existing.id \in users
                      ELSE \/ reqs'[r].pc = "done" /\ reqs'[r].status = 401
                           \/ /\ reqs'[r].pc = "compare"
                              /\ reqs'[r].updates.password_hash # reqs[r].body.password
          /\ LoginCompared(r)
             => IF reqs[r].updates.password_hash = reqs[r].body.password
                THEN /\ reqs'[r].status = 200
                     /\ tokens' = tokens \cup {reqs'[r].out}
                     /\ reqs'[r].out = Claims(tblUsers[reqs[r].existing.id])
                ELSE reqs'[r].status = 401 /\ tokens' = tokens]_vars

\* C20 witness: a user the admin created has logged in and holds a token with
\* the id, e-mail, name and role of the stored row, and a login with a wrong
\* credential for the still active default admin has been answered 401.
C20_TokenIssuedAndRefused ==
    /\ \E r \in DOMAIN reqs :
          /\ reqs[r].kind = "login" /\ reqs[r].status = 200
          /\ reqs[r].out \in tokens /\ reqs[r].out.id = 2
          /\ reqs[r].out.role = tblUsers[2].role /\ reqs[r].out.name = tblUsers[2].name
    /\ \E r \in DOMAIN reqs :
          /\ reqs[r].kind = "login" /\ reqs[r].status = 401
          /\ reqs[r].body.password = "wrong"
          /\ reqs[r].body.email = DefaultAdmin.email /\ tblUsers[1].active = 1

(***************************************************************************)
(* The token-protected routes, called with no token, with a token that     *)
(* jwt.verify rejects, and with the tokens of an admin and of a viewer.    *)
(***************************************************************************)
\* The routes that run authenticateToken.
Protected == {"create", "delete", "deleteAll", "userList", "me", "userPost", "userPut",
              "userDelete"}
\* Of these, the routes that also run requireAdmin.
AdminOnly == Protected \ {"create", "me"}

\* What a caller puts in the Authorization header.
Presented == tokens \cup {NoToken, BadToken}

\* Steps of the handlers of the routes above.
GateSteps ==
    \E r \in ReqIds :
        \/ CreateInsert(r) \/ CreateReread(r)
        \/ DeleteExec(r) \/ DeleteAllExec(r)
        \/ UserListExec(r) \/ MeExec(r)
        \/ UserPostInsert(r) \/ UserPutWrite(r) \/ UserDeleteWrite(r)

NextGates ==
    \/ AdminLogin
    \/ LoginRequest("other", 2, "admin123")
    \/ LoginSteps
    \/ \E tok \in Presented :
           \/ CreateRequest("other", tok, CreateBody)
           \/ DeleteRequest("other", tok, 1)
           \/ DeleteAllRequest("other", tok)
           \/ UserListRequest("other", tok)
           \/ MeRequest("other", tok)
           \/ UserPostRequest("other", tok, seqUsers + 1, "viewer", "admin123")
           \/ UserPutRequest("other", tok, 2, [role |-> "editor"])
           \/ UserDeleteRequest("other", tok, 2)
    \/ GateSteps

SpecGates == Init /\ [][NextGates]_vars

\* The request received in this step, if one is.
Received == Len(reqs') = Len(reqs) + 1

\* C21: a request to a token-protected route that carries no token or a token
\* jwt.verify rejects is answered 401 on arrival, and neither store changes and
\* nothing is emitted in that step; being answered, its handler never runs.
C21_BadTokenIs401 ==
    [][Received
       => LET q == reqs'[Len(reqs')]
          IN (q.kind \in Protected /\ q.tok \in {NoToken, BadToken})
             => /\ q.pc = "done" /\ q.status = 401
                /\ UNCHANGED <<dbVars, userVars, emitted>>]_vars

(***************************************************************************)
(* The admin-only routes, called by an admin and by a viewer.              *)
(***************************************************************************)
NextAdminOnly ==
    \/ AdminLogin
    \/ LoginRequest("other", 2, "admin123")
    \/ LoginSteps
    \/ \E tok \in tokens :
           \/ DeleteRequest("other", tok, 1)
           \/ DeleteAllRequest("other", tok)
           \/ UserListRequest("other", tok)
           \/ UserPostRequest("other", tok, seqUsers + 1, "viewer", "admin123")
           \/ UserPutRequest("other", tok, 2, [role |-> "editor"])
           \/ UserDeleteRequest("other", tok, 2)
    \/ \E r \in ReqIds :
           \/ DeleteExec(r) \/ DeleteAllExec(r) \/ UserListExec(r)
           \/ UserPostInsert(r) \/ UserPutWrite(r) \/ UserDeleteWrite(r)

SpecAdminOnly == Init /\ [][NextAdminOnly]_vars

\* C22: a request to an admin-only route with a verified token whose role is not
\* admin is answered 403 on arrival; neither store changes and nothing is emitted
\* in that step, and an answered request takes no further step.
C22_NonAdminForbidden ==
    [][/\ Received
          => LET q == reqs'[Len(reqs')]
             IN (q.kind \in AdminOnly /\ q.tok \in tokens /\ q.tok.role # "admin")
                => /\ q.pc = "done" /\ q.status = 403
                   /\ UNCHANGED <<dbVars, userVars, emitted>>
       /\ \A r \in DOMAIN reqs : reqs[r].pc = "done" => reqs'[r] = reqs[r]]_vars

\* C22 witness: the viewer the admin created has logged in and has been refused
\* on an admin-only route.
C22_ViewerRefused ==
    \E r \in DOMAIN reqs :
        /\ reqs[r].kind \in AdminOnly /\ reqs[r].tok \in tokens
        /\ reqs[r].tok.id = 2 /\ reqs[r].tok.role = "viewer"
        /\ reqs[r].pc = "done" /\ reqs[r].status = 403

(***************************************************************************)
(* Feature requests, with and without a mail transport.                    *)
(***************************************************************************)
\* Descriptions sent: none, blanks only, a text with blanks around it.
Descriptions == {<< >>, <<" ", " ">>, <<" ", "m", "a", "p", " ">>}

NextFeature ==
    \/ \E description \in Descriptions : FeatureRequest("other", description)
    \/ \E r \in ReqIds, result \in {NotConfigured, Sent, SendFailed} : FeatureMail(r, result)
    \/ AdminLogin
    \/ LoginSteps

SpecFeature == Init /\ [][NextFeature]_vars

\* C23: every answered feature request whose description is not empty has a
\* success response, whatever became of the mail.
C23_FeatureRequestAccepted ==
    \A r \in DOMAIN reqs :
        (reqs[r].kind = "feature" /\ reqs[r].pc = "done"
            /\ Trim(reqs[r].body.description) # << >>)
        => reqs[r].status = 200

(***************************************************************************)
(* The App against a server started on a database that holds a property:  *)
(* its own votes and the votes of another caller.                          *)
(***************************************************************************)
\* The server starts on the database file of an earlier run, in which the default
\* admin created one property.
InitStored ==
    /\ tblProperties =
          InsertTable(EmptyTable, 1, PropertyData(CreateBody, DefaultAdmin), 1)
    /\ seqProperties = 1
    /\ clock = 1
    /\ tblUsers = [i \in {1} |-> DefaultAdmin]
    /\ seqUsers = 1
    /\ tokens = {}
    /\ reqs = << >>
    /\ emitted = << >>
    /\ socket = "disconnected"
    /\ channel = << >>
    /\ properties = << >>
    /\ selectedProperty = Null
    /\ mounted = FALSE
    /\ capturedSelected = Null
    /\ effectStale = FALSE
    /\ lostEvents = FALSE

NextStale ==
    \/ Mount
    \/ SocketConnect
    \/ OnPropertyUpdated
    \/ HandleVote(1, "up")
    \/ VoteRequest("other", 1, "up")
    \/ \E r \in ReqIds :
           \/ ListExec(r) \/ FetchDone(r)
           \/ VoteCheck(r) \/ UpdateWrite(r) \/ UpdateReread(r)
           \/ HandleUpdateDone(r)

SpecStale == InitStored /\ [][NextStale]_vars

\* The App writes a property into its cache in this step: the propertyUpdated
\* listener runs, or the continuation of one of its own votes or edits.
CacheWrite ==
    \/ Receives({"propertyUpdated"})
    \/ \E r \in DOMAIN reqs : Answered(r, {"vote", "put"}) /\ reqs'[r].pc = "applied"

\* C24: a cache write from a propertyUpdated event or from the response of the
\* App's own vote or edit never replaces the cached state of a property with
\* one the server committed earlier.
C24_NoCacheRegression ==
    [][CacheWrite
       => \A i \in DOMAIN properties, j \in DOMAIN properties' :
             properties[i].id = properties'[j].id
             => properties'[j].rev >= properties[i].rev]_vars

(***************************************************************************)
(* Events that reach the App while its snapshot fetch is in flight.        *)
(***************************************************************************)
\* The events caused by requests later than the App's fetch r that its listeners
\* have handled (every such event was put on the connection unless lostEvents).
Delivered(r) ==
    {k \in DOMAIN emitted :
        /\ emitted[k].req > r
        /\ \A c \in DOMAIN channel : channel[c] # emitted[k]}

\* The event is about property id.
Touches(e, id) == e.type = "allPropertiesDeleted" \/ e.id = id

\* The cache shows what event e did to property id.
Reflected(e, id, cache) ==
    IF e.type \in {"propertyCreated", "propertyUpdated"}
    THEN \E i \in DOMAIN cache : cache[i].id = id /\ cache[i].rev >= e.data.rev
    ELSE \A i \in DOMAIN cache : cache[i].id # id

\* C25: when the App's snapshot fetch completes and is applied, the cache shows,
\* for every property, the last event about it that the App handled while the
\* fetch was in flight.
C25_EventsSurviveFetch ==
    [][\A r \in DOMAIN reqs :
          (FetchCompletes(r) /\ reqs[r].status = 200 /\ ~lostEvents)
          => \A id \in PropIds, k \in Delivered(r) :
                (/\ Touches(emitted[k], id)
                 /\ \A l \in Delivered(r) : Touches(emitted[l], id) => l <= k)
                => Reflected(emitted[k], id, properties')]_vars

(***************************************************************************)
(* The App's connection while its selection changes.                       *)
(***************************************************************************)
\* The network drops the App's connection in this step (socket.io-client will
\* reconnect); every other way out of "connected" is the App's own doing.
NetworkDrop == socket = "connected" /\ socket' = "reconnecting"

\* C26: while the App is mounted, its connection ends only when the network
\* drops it: no step of the App itself (selecting, deselecting, applying an
\* update of the selected property) takes the socket out of "connected" or
\* discards events that are on their way to it.
C26_SubscriptionContinuous ==
    [][(mounted /\ socket = "connected" /\ ~NetworkDrop)
       => /\ socket' = "connected"
          /\ \/ channel' = channel
             \/ channel # << >> /\ channel' = Tail(channel)
             \/ /\ Len(emitted') = Len(emitted) + 1
                /\ channel' = Append(channel, emitted'[Len(emitted')])]_vars

(***************************************************************************)
(* Who performs the admin-only operations.                                 *)
(***************************************************************************)
\* The handler of admin-only request r runs in this step and the operation
\* succeeds: a success response, or (create and update of a user) a committed
\* write whose callback then ends the process.
AdminOpSucceeds(r) ==
    /\ reqs[r].kind \in AdminOnly
    /\ reqs[r].pc \notin {"done", "applied", "crashed", "aborted"}
    /\ \/ reqs'[r].pc = "done" /\ reqs'[r].status \in {200, 201}
       \/ reqs'[r].pc = "crashed" /\ tblUsers' # tblUsers

\* The user store holds the requester of r as an active admin.
ActiveAdmin(tbl, tok) ==
    /\ tok.id \in DOMAIN tbl
    /\ tbl[tok.id].active = 1 /\ tbl[tok.id].role = "admin"

\* C27: when an admin-only operation succeeds, the user who requested it is, in
\* the state in which its handler runs, active and of role admin in the user store.
C27_AdminAtHandlingTime ==
    [][\A r \in DOMAIN reqs :
          AdminOpSucceeds(r) => ActiveAdmin(tblUsers, reqs[r].tok)]_vars

(***************************************************************************)
(* Updates of users: valid ones, one that takes another user's e-mail, one *)
(* that changes the caller's own role, one that names no field.            *)
(***************************************************************************)
\* Bodies of PUT /api/users/:id in this specification.
UserPutInputs == {[role |-> "editor"], [active |-> FALSE], [email |-> 1], [phone |-> 1]}

NextUserPut ==
    \/ AdminLogin
    \/ LoginSteps
    \/ \E tok \in tokens : UserPostRequest("other", tok, seqUsers + 1, "viewer", "admin123")
    \/ \E r \in ReqIds : UserPostInsert(r)
    \/ \E tok \in tokens, id \in 1..2, updates \in UserPutInputs :
           UserPutRequest("other", tok, id, updates)
    \/ \E r \in ReqIds : UserPutWrite(r)

SpecUserPut == Init /\ [][NextUserPut]_vars

\* PUT /api/users/:id request r is answered with an error status in this step:
\* on arrival, or by its handler.
UserPutFails(r) ==
    /\ r \in DOMAIN reqs' /\ reqs'[r].kind = "userPut"
    /\ reqs'[r].pc = "done" /\ reqs'[r].status \in {400, 404, 500}
    /\ r \in DOMAIN reqs => reqs[r].pc = "write"

NextReannounce ==
    \/ AdminLogin
    \/ LoginSteps
    \/ \E tok \in tokens : CreateRequest("other", tok, CreateBody)
    \/ \E id \in DOMAIN tblProperties : PutRequest("other", id, NotesBody)
    \/ \E id \in DOMAIN tblProperties : VoteRequest("other", id, "up")
    \/ \E tok \in tokens, id \in DOMAIN tblProperties : DeleteRequest("other", tok, id)
    \/ \E tok \in tokens : DeleteAllRequest("other", tok)
    \/ PropertySteps

SpecReannounce == Init /\ [][NextReannounce]_vars

\* Event e announces that property id is gone: propertyDeleted for it, or an
\* allPropertiesDeleted whose DELETE committed after the INSERT of id.
RemovedBy(e, id) ==
    \/ e.type = "propertyDeleted" /\ e.id = id
    \/ /\ e.type = "allPropertiesDeleted"
       /\ \E c \in DOMAIN reqs :
             /\ reqs[c].kind = "create" /\ reqs[c].id = id
             /\ reqs[c].wrote # 0 /\ reqs[c].wrote < reqs[e.req].wrote

\* C29: in the sequence of emitted events, no propertyCreated or propertyUpdated
\* carrying an id comes after an event that announced that id as deleted.
C29_NoReannounce ==
    \A k, l \in DOMAIN emitted :
        (k < l /\ emitted[l].type \in {"propertyCreated", "propertyUpdated"})
        => ~RemovedBy(emitted[k], emitted[l].id)

\* C29 witness: a create and a vote or update on the property it inserted had
\* both written when the property was deleted and announced as deleted; both
\* handlers have finished since, and neither has emitted an event.
C29_DeletedWhileInFlight ==
    \E c, r \in DOMAIN reqs, k \in DOMAIN emitted :
        /\ reqs[c].kind = "create" /\ reqs[c].pc = "done" /\ reqs[c].wrote # 0
        /\ reqs[r].kind \in {"put", "vote"} /\ reqs[r].pc = "done" /\ reqs[r].wrote # 0
        /\ reqs[r].id = reqs[c].id
        /\ RemovedBy(emitted[k], reqs[c].id)
        /\ reqs[r].wrote < reqs[emitted[k].req].wrote
        /\ {c, r} \cap {emitted[l].req : l \in DOMAIN emitted} = {}

(***************************************************************************)
(* The App's cache as a collection keyed by id.                            *)
(***************************************************************************)
\* The App's fetch, its listeners, and its own create, vote and delete calls,
\* while another caller creates properties.
NextCache ==
    \/ AdminLogin
    \/ LoginSteps
    \/ Mount
    \/ SocketConnect
    \/ OnPropertyCreated
    \/ OnPropertyUpdated
    \/ OnPropertyDeleted
    \/ OnAllPropertiesDeleted
    \/ \E tok \in tokens : HandleAddAddress(tok, CreateBody)
    \/ \E tok \in tokens : CreateRequest("other", tok, CreateBody)
    \/ \E id \in PropIds : HandleVote(id, "up")
    \/ \E tok \in tokens, id \in PropIds : HandleDelete(tok, id)
    \/ \E tok \in tokens : HandleDeleteAll(tok)
    \/ \E r \in ReqIds :
           \/ CreateInsert(r) \/ CreateReread(r)
           \/ VoteCheck(r) \/ UpdateWrite(r) \/ UpdateReread(r)
           \/ DeleteExec(r) \/ DeleteAllExec(r)
           \/ ListExec(r)
    \/ AppContinuations

SpecCache == Init /\ [][NextCache]_vars

\* C30: the App's cache never holds two entries with the same property id.
C30_OneEntryPerId ==
    \A i, j \in DOMAIN properties : properties[i].id = properties[j].id => i = j

\* C30 witness: the App created a property, both the propertyCreated event and
\* the response of its own call have been applied, and the cache holds it.
C30_CreatedTwiceAnnounced ==
    \E r \in DOMAIN reqs :
        /\ reqs[r].kind = "create" /\ reqs[r].client = "app" /\ reqs[r].pc = "applied"
        /\ reqs[r].status = 201
        /\ \E k \in DOMAIN emitted :
              /\ emitted[k].req = r
              /\ \A c \in DOMAIN channel : channel[c] # emitted[k]
        /\ ~lostEvents
        /\ reqs[r].id \in CachedIds
====
